---- MODULE Spec2Model ----
(***************************************************************************)
(* Model of the REDCap data transfer tool (naccdata/redcap-data-transfer). *)
(*                                                                         *)
(* The state is the content of the source and destination REDCap projects, *)
(* the configuration DataHandler was constructed with, and the locals of   *)
(* DataHandler.transfer_data.  transfer_data is cut at its remote calls:   *)
(* every action is one blocking round trip to a project together with the  *)
(* local code that follows it up to the next round trip.  The outcome of a *)
(* round trip (HTTP failure, count returned) is chosen nondeterministically*)
(* since the connector reports failures it cannot prevent.                 *)
(***************************************************************************)
EXTENDS Integers, Sequences, FiniteSets, TLC

\* ---------------------------------------------------------------- bounds
\* Largest number of record identifiers in the source project.
MaxIds == 3
\* Largest batch size (Params.BATCH_SIZE) tried; -1 and 0 are tried as well.
MaxBatch == 2
\* Largest number of record identifiers owning an instance that fails validation.
MaxRejected == 1

\* ------------------------------------------------------- values and helpers
\* A connector method returns False when the HTTP status is not OK.
Absent == 0 - 1

\* Python truthiness of an `int | bool` connector result.
Truthy(x) == x # Absent /\ x # 0

Min(a, b) == IF a < b THEN a ELSE b

\* math.ceil(n / d) for n >= 0, d > 0
Ceil(n, d) == (n + d - 1) \div d

Range(s) == {s[k] : k \in 1..Len(s)}

\* Form names of the source project; ErrForm is the validation-error form.
ErrForm == "data_quality_check_errors"

\* Rule definitions loaded for the run: one numeric field `val` with a range.
Schema == [min |-> 50, max |-> 90]

\* Raw values of field `val` found in the source project.
Values == {70, 95}

\* The identifiers of a set of exported instances.
IdsOf(recs) == {r.id : r \in recs}

\* ---------------------------------------------------------------- state
VARIABLES
    src,              \* instances stored in the source project
    dest,             \* instances stored in the destination project
    all_forms,        \* DataHandler.__all_forms (<<>> stands for None)
    forms,            \* DataHandler.__forms
    events,           \* DataHandler.__events (<<>> stands for None)
    qc_err_form,      \* DataHandler.__qc_err_form ("" when not configured)
    batch_size_val,   \* argument of transfer_data (Params.BATCH_SIZE)
    move,             \* argument move_records of transfer_data
    environ,          \* MOVE_RECORDS in the environment ("" when not set)
    record_ids,       \* REDCapConnection.record_ids of the source
    pc,               \* position inside transfer_data
    num_records, iterations, batch_size, i, total_imported,
    records,          \* instances exported for the current batch
    valid_ids, valid_records, failed_records,
    num_imported,     \* result of the destination import of the batch
    calls,            \* history: remote record calls made so far
    cur,              \* history: outcomes of the calls of the current batch
    last,             \* history: outcomes of the calls of the previous batch
    reported,         \* the two totals logged at the end of the run
    settings,         \* project settings of the source and the destination
    strict,           \* Params.STRICT_MODE
    rules,            \* what Params.RULES_DIR holds for the selected forms
    qual_check,       \* DataHandler.__qual_check
    queries,          \* history: settings compared by compare_project_settings
    compared,         \* history: values compare_project_settings returned
    engine            \* the validation engine exercised on one record

config == <<all_forms, forms, events, qc_err_form, batch_size_val, move,
            environ, settings, strict, rules, qual_check>>
locals == <<records, valid_ids, valid_records, failed_records, num_imported>>
startup == <<queries, compared, engine>>
vars == <<src, dest, all_forms, forms, events, qc_err_form, batch_size_val,
          move, environ, record_ids, pc, num_records, iterations, batch_size, i,
          total_imported, records, valid_ids, valid_records, failed_records,
          num_imported, calls, cur, last, reported, settings, strict, rules,
          qual_check, queries, compared, engine>>

\* ------------------------------------------------------- validation engine
\* The errors of a value of field `val` under the min/max rules of Schema,
\* in rule order.
RuleErrors(val) ==
    (IF val < Schema.min THEN <<"min value is 50">> ELSE <<>>) \o
    (IF val > Schema.max THEN <<"max value is 90">> ELSE <<>>)

\* QualityCheck.check_record_cerberus on one exported instance: field `val`
\* is evaluated when the loaded schema declares it (a field the schema does
\* not declare is let through when unknown fields are allowed).
FieldErrors(record) ==
    IF qual_check.validated THEN RuleErrors(record.val) ELSE <<>>

check_record_cerberus(record) ==
    LET errors == FieldErrors(record)
    IN  [passed |-> errors = <<>>, errors |-> errors]

\* compose_error_report_for_record: the copy of a failed instance that is
\* appended to failed_records; annotated only when an error form is set.
compose_error_report_for_record(record) ==
    IF qc_err_form # ""
    THEN [record EXCEPT !.timestamp = "now", !.val_errs = "errors"]
    ELSE record

\* validate_data: the three lists computed from the exported instances.
validate_data(recs) ==
    LET ok == {r \in recs : check_record_cerberus(r).passed}
    IN  [valid_ids      |-> IdsOf(ok),
         valid_records  |-> ok,
         failed_records |-> {compose_error_report_for_record(r) : r \in recs \ ok}]

\* ------------------------------------------------------- remote projects
\* An instance of a record as REDCap stores it.
Rec(id, inst, val) ==
    [id |-> id, inst |-> inst, val |-> val, timestamp |-> "", val_errs |-> ""]

\* import_records with overwriteBehavior normal: an imported instance
\* replaces the stored instance with the same identifier and instance number.
Store(project, payload) ==
    {r \in project : ~ \E p \in payload : p.id = r.id /\ p.inst = r.inst}
        \cup payload

\* delete_records removes every instance of the listed identifiers.
Remove(project, ids) == {r \in project : r.id \notin ids}

\* The count REDCap returns for an import: the number of records (identifiers).
ImportCount(payload) == Cardinality(IdsOf(payload))

\* export_record_ids: the unique identifiers in project order.
UniqueIds(project) ==
    LET ids == IdsOf(project)
    IN  CHOOSE s \in [1..Cardinality(ids) -> ids] :
            \A a, b \in 1..Cardinality(ids) : a < b => s[a] < s[b]

\* ------------------------------------------------------- construction
\* DataHandler.get_forms_list: the project's forms without the error form.
get_forms_list(all, qc) == SelectSeq(all, LAMBDA f : f # qc)

\* list.remove raises ValueError when the error form is not in the list,
\* so DataHandler cannot be constructed with that combination.
Constructible(all, arg, qc) ==
    arg # <<>> \/ qc = "" \/ qc \in Range(all)

\* The set-ups tried: the forms of the source project (export_froms_list,
\* <<>> when the export failed) and the forms, events and error form that
\* main passes to DataHandler (<<>> and "" when not configured).
Setup(all, arg, ev, qc) ==
    [all_forms |-> all, forms |-> arg, events |-> ev, qc_err_form |-> qc]

Setups ==
    { Setup(<<"f1", "f2", ErrForm>>, <<>>, <<>>, ErrForm),
      Setup(<<"f1", "f2", ErrForm>>, <<>>, <<"e1">>, ErrForm),
      Setup(<<"f1", "f2", ErrForm>>, <<"f1">>, <<>>, ErrForm),
      Setup(<<"f1", "f2">>, <<"f1">>, <<>>, ErrForm),
      Setup(<<>>, <<"f1">>, <<>>, ErrForm),
      Setup(<<"f1", "f2">>, <<>>, <<>>, "") }

\* Source projects: every identifier owns one valid instance, one rejected
\* instance, or a valid and a rejected instance (a repeating instrument).
Shapes == {"valid", "rejected", "mixed"}
GoodVal == CHOOSE v \in Values : RuleErrors(v) = <<>>
BadVal == CHOOSE v \in Values : RuleErrors(v) # <<>>

Instances(id, shape) ==
    CASE shape = "valid"    -> {Rec(id, 1, GoodVal)}
      [] shape = "rejected" -> {Rec(id, 1, BadVal)}
      [] shape = "mixed"    -> {Rec(id, 1, GoodVal), Rec(id, 2, BadVal)}

Layouts(n) ==
    {f \in [1..n -> Shapes] :
        Cardinality({k \in 1..n : f[k] # "valid"}) <= MaxRejected}

Project(n, f) == UNION {Instances(k, f[k]) : k \in 1..n}

NoBatch == [export |-> "none", import |-> "none", delete |-> "none",
            writeback |-> "none"]

\* The settings compare_project_settings looks at: the data dictionary of
\* the selected forms ("" when it has no field), the longitudinal flag, the
\* arms, events and form-event mappings, the repeating-instruments flag and
\* the repeating-instrument definitions, each as the text REDCap exports.
Settings(lng, rpt) ==
    [dict |-> "val", lng |-> lng, arms |-> "arm1", events |-> "e1,e2",
     maps |-> "e1:f1,e2:f2", rpt |-> rpt, ins |-> "f2"]

\* Destination projects: the source's settings, or one aspect changed.
Variants(s) ==
    { s,
      [s EXCEPT !.dict = ""],
      [s EXCEPT !.dict = "val,age"],
      [s EXCEPT !.lng = ~ s.lng],
      [s EXCEPT !.arms = "arm1,arm2"],
      [s EXCEPT !.events = "e1"],
      [s EXCEPT !.maps = "e1:f1"],
      [s EXCEPT !.rpt = ~ s.rpt],
      [s EXCEPT !.ins = "f1,f2"] }

SettingsPairs ==
    UNION {{[src |-> Settings(l, r), dest |-> d] : d \in Variants(Settings(l, r))} :
              l, r \in BOOLEAN}
        \cup {[src |-> [Settings(FALSE, FALSE) EXCEPT !.dict = ""],
                dest |-> [Settings(FALSE, FALSE) EXCEPT !.dict = ""]]}

\* What the rules directory holds for the selected forms:
\*   found     every definition loads and is well formed,
\*   missing   the definition of the form of field `val` cannot be loaded,
\*   malformed a constraint of field `val` lacks its 'if' or 'then' part,
\*   rejected  a definition the schema validation of cerberus rejects,
\*   misnamed  a definition names a variable the data dictionary lacks.
RuleStores == {"found", "missing", "malformed", "rejected", "misnamed"}

\* DataHandler.__qual_check: None until set_quality_checker has run.
NoQualityCheck == [set |-> FALSE, validated |-> FALSE, malformed |-> FALSE]

\* The engine a run of transfer_data alone is given: the rules of Schema.
Loaded == [set |-> TRUE, validated |-> TRUE, malformed |-> FALSE]

\* No record has been handed to the validation engine.
Idle == [phase |-> "idle"]

\* The locals and the histories before the first step.
Fresh ==
    /\ dest = {}
    /\ record_ids = <<>>
    /\ num_records = 0 /\ iterations = 0 /\ batch_size = 0
    /\ i = 0 /\ total_imported = 0
    /\ records = {} /\ valid_ids = {} /\ valid_records = {}
    /\ failed_records = {}
    /\ num_imported = Absent
    /\ calls = <<>>
    /\ cur = NoBatch
    /\ last = NoBatch
    /\ reported = [imported |-> Absent, failed |-> Absent]
    /\ queries = <<>>
    /\ compared = <<>>

\* DataHandler constructed from set-up s.
Constructed(s) ==
    /\ Constructible(s.all_forms, s.forms, s.qc_err_form)
    /\ all_forms = s.all_forms
    /\ forms = IF s.forms # <<>> THEN s.forms
               ELSE get_forms_list(s.all_forms, s.qc_err_form)
    /\ events = s.events
    /\ qc_err_form = s.qc_err_form

\* The state at the call of transfer_data, the projects found compatible
\* and the rules of Schema loaded.
Init ==
    /\ \E n \in 0..MaxIds : \E f \in Layouts(n) : src = Project(n, f)
    /\ \E s \in Setups : Constructed(s)
    /\ batch_size_val \in (0 - 1)..MaxBatch
    /\ move \in BOOLEAN
    /\ environ = (IF move THEN "true" ELSE "false")
    /\ pc = "start"
    /\ Fresh
    /\ settings = [src |-> Settings(FALSE, FALSE),
                   dest |-> Settings(FALSE, FALSE)]
    /\ strict = TRUE
    /\ rules = "found"
    /\ qual_check = Loaded
    /\ engine = Idle

\* ------------------------------------------------------- transfer_data
\* Integer division in place of math.ceil.
Iterations_floor(n, b) == IF b > 0 THEN n \div b ELSE 1

\* iterations and batch_size as computed before the loop.
Iterations(n, b) == IF b > 0 THEN Ceil(n, b) ELSE 1

BatchSize(n, b) == IF b > 0 THEN b ELSE n

\* begin and end of batch k.
Begin(k) == k * batch_size

End(k) == Min((k + 1) * batch_size, num_records)

\* The slice one identifier short.
Slice_short(k) == {record_ids[j] : j \in (Begin(k) + 1)..(End(k) - 1)}

\* record_ids[begin:end]
Slice(k) == {record_ids[j] : j \in (Begin(k) + 1)..End(k)}

\* No identifier filter is left out when there is one batch.
RecordIdsArg_filtered(k) == [all |-> FALSE, ids |-> Slice(k)]

\* The record_ids argument of export_records: None when there is one batch.
RecordIdsArg(k) ==
    IF iterations = 1 THEN [all |-> TRUE, ids |-> {}]
    ELSE [all |-> FALSE, ids |-> Slice(k)]

\* export_records filters by identifier only when the list is non-empty.
Exported(arg) ==
    IF arg.all \/ arg.ids = {} THEN src ELSE {r \in src : r.id \in arg.ids}

\* The failed import is not told from the confirmed one.
ImportConfirmed_always(num) == TRUE

\* A count of 0 is taken for a confirmation.
ImportConfirmed_zero(num) == num # Absent

\* `if num_imported:` after the destination import.
ImportConfirmed(num) == Truthy(num)

\* The total assigned, not accumulated.
NextTotal_assign(total, num) == num

\* total_imported += num_imported
NextTotal(total, num) == total + num

\* The write-back indented into the branch of a batch without valid records.
WriteBackDue_novalid(failed) == failed # {} /\ valid_records = {}

\* `if len(failed_records) != 0:` before the write-back.
WriteBackDue(failed) == failed # {}

\* DataHandler.move_records: only a subset of the forms/events was validated.
is_subset == Len(forms) < Len(all_forms) - 1 \/ events # <<>>

\* num_records - total_imported, the second total logged after the loop.
ReportFailed(n, total) == n - total

\* One entry of the call history.
Call(op, all, ids, recs, result) ==
    [op |-> op, batch |-> i, all |-> all, ids |-> ids, recs |-> recs,
     result |-> result]

\* transfer_data returns when the write-back failed.
EndBatch_return_writeback(c) ==
    /\ i' = IF c.writeback = "failed" THEN i ELSE i + 1
    /\ pc' = IF c.writeback = "failed" THEN "returned" ELSE "loop"
    /\ last' = c
    /\ cur' = NoBatch

\* transfer_data returns when the export or the import failed.
EndBatch_return_failure(c) ==
    /\ i' = IF "failed" \in {c.export, c.import} THEN i ELSE i + 1
    /\ pc' = IF "failed" \in {c.export, c.import} THEN "returned" ELSE "loop"
    /\ last' = c
    /\ cur' = NoBatch

\* A batch whose export failed is tried again.
EndBatch_again(c) ==
    /\ i' = IF c.export = "failed" THEN i ELSE i + 1
    /\ pc' = "loop"
    /\ last' = c
    /\ cur' = NoBatch

\* `i += 1` and back to the loop head; c tells how the batch went.
EndBatch(c) ==
    /\ i' = i + 1
    /\ pc' = "loop"
    /\ last' = c
    /\ cur' = NoBatch

\* Lines 316-325: write the failed instances back, or end the batch.
ThenWriteBack(failed, c) ==
    IF WriteBackDue(failed)
    THEN /\ pc' = "writeback"
         /\ cur' = c
         /\ UNCHANGED <<i, last>>
    ELSE EndBatch(c)

\* The loop is entered whatever export_record_ids returned.
StartTransfer_proceed ==
    /\ pc = "start"
    /\ \E ok \in BOOLEAN :
        LET found == ok /\ src # {}
            ids == IF found THEN UniqueIds(src) ELSE <<>>
        IN  /\ calls' = Append(calls,
                    Call("export_record_ids", TRUE, Range(ids), {},
                         IF found THEN Len(ids) ELSE Absent))
            /\ record_ids' = ids
            /\ num_records' = Len(ids)
            /\ iterations' = Iterations(Len(ids), batch_size_val)
            /\ batch_size' = BatchSize(Len(ids), batch_size_val)
            /\ pc' = "loop"
    /\ i' = 0
    /\ total_imported' = 0
    /\ UNCHANGED <<src, dest, config, startup, locals, cur, last, reported>>

\* Lines 237-261: fetch the identifiers, size the loop.
StartTransfer ==
    /\ pc = "start"
    /\ \E ok \in BOOLEAN :
        LET found == ok /\ src # {}
            ids == IF found THEN UniqueIds(src) ELSE <<>>
        IN  /\ calls' = Append(calls,
                    Call("export_record_ids", TRUE, Range(ids), {},
                         IF found THEN Len(ids) ELSE Absent))
            /\ record_ids' = ids
            /\ IF found /\ Len(ids) > 0
               THEN /\ num_records' = Len(ids)
                    /\ iterations' = Iterations(Len(ids), batch_size_val)
                    /\ batch_size' = BatchSize(Len(ids), batch_size_val)
                    /\ pc' = "loop"
               ELSE /\ pc' = "returned"
                    /\ UNCHANGED <<num_records, iterations, batch_size>>
    /\ i' = 0
    /\ total_imported' = 0
    /\ UNCHANGED <<src, dest, config, startup, locals, cur, last, reported>>

\* Lines 262-288 (and 313-314): export batch i and validate its instances.
\* Evaluating an instance by a constraint that lacks 'if' or 'then' raises
\* SchemaError, which nothing in transfer_data or main catches.
ExportBatch ==
    /\ pc = "loop"
    /\ i < iterations
    /\ \E ok \in BOOLEAN :
        LET arg == RecordIdsArg(i)
            recs == Exported(arg)
            v == validate_data(recs)
            c == [NoBatch EXCEPT !.export = IF ok THEN "ok" ELSE "failed"]
        IN  /\ calls' = Append(calls,
                    Call("export_records", arg.all, arg.ids,
                         IF ok THEN recs ELSE {},
                         IF ok THEN Cardinality(recs) ELSE Absent))
            /\ IF ~ ok
               THEN /\ EndBatch(c)
                    /\ UNCHANGED <<records, valid_ids, valid_records,
                                   failed_records>>
               ELSE IF qual_check.malformed /\ recs # {}
               THEN /\ records' = recs
                    /\ pc' = "crashed"
                    /\ cur' = c
                    /\ UNCHANGED <<valid_ids, valid_records, failed_records,
                                   i, last>>
               ELSE /\ records' = recs
                    /\ valid_ids' = v.valid_ids
                    /\ valid_records' = v.valid_records
                    /\ failed_records' = v.failed_records
                    /\ IF Cardinality(v.valid_records) > 0
                       THEN /\ pc' = "import"
                            /\ cur' = c
                            /\ UNCHANGED <<i, last>>
                       ELSE ThenWriteBack(v.failed_records, c)
    /\ UNCHANGED <<src, dest, config, startup, record_ids, num_records, iterations,
                   batch_size, total_imported, num_imported, reported>>

\* Lines 290-305: import the valid instances to the destination project.
ImportValid ==
    /\ pc = "import"
    /\ \E result \in {Absent, 0, ImportCount(valid_records)} :
        /\ num_imported' = result
        /\ dest' = IF result > 0 THEN Store(dest, valid_records) ELSE dest
        /\ calls' = Append(calls,
                Call("import_dest", FALSE, valid_ids, valid_records, result))
        /\ IF ImportConfirmed(result)
           THEN /\ total_imported' = NextTotal(total_imported, result)
                /\ IF move
                   THEN /\ pc' = "move"
                        /\ cur' = [cur EXCEPT !.import = "ok"]
                        /\ UNCHANGED <<i, last>>
                   ELSE ThenWriteBack(failed_records,
                                      [cur EXCEPT !.import = "ok"])
           ELSE /\ total_imported' = total_imported
                /\ EndBatch([cur EXCEPT !.import =
                                IF result = 0 THEN "zero" ELSE "failed"])
    /\ UNCHANGED <<src, config, startup, record_ids, num_records, iterations,
                   batch_size, records, valid_ids, valid_records,
                   failed_records, reported>>

\* Lines 305-312 and move_records (415-434): delete the valid records from
\* the source.  len(None) raises TypeError when the forms list of the
\* project could not be exported at construction.
MoveRecords ==
    /\ pc = "move"
    /\ IF all_forms = <<>>
       THEN /\ pc' = "crashed"
            /\ UNCHANGED <<src, calls, cur, i, last>>
       ELSE IF is_subset
       THEN /\ ThenWriteBack(failed_records, [cur EXCEPT !.delete = "skipped"])
            /\ UNCHANGED <<src, calls>>
       ELSE \E ok \in BOOLEAN :
            /\ src' = IF ok THEN Remove(src, valid_ids) ELSE src
            /\ calls' = Append(calls,
                    Call("delete_records", FALSE, valid_ids, {},
                         IF ok THEN Cardinality(valid_ids) ELSE Absent))
            /\ ThenWriteBack(failed_records,
                    [cur EXCEPT !.delete = IF ok THEN "ok" ELSE "failed"])
    /\ UNCHANGED <<dest, config, startup, record_ids, num_records, iterations,
                   batch_size, total_imported, locals, reported>>

\* Lines 316-325: import the failed instances back to the source project.
WriteBack ==
    /\ pc = "writeback"
    /\ \E ok \in BOOLEAN :
        /\ src' = IF ok THEN Store(src, failed_records) ELSE src
        /\ calls' = Append(calls,
                Call("import_src", FALSE, IdsOf(failed_records),
                     failed_records,
                     IF ok THEN ImportCount(failed_records) ELSE Absent))
        /\ EndBatch([cur EXCEPT !.writeback = IF ok THEN "ok" ELSE "failed"])
    /\ UNCHANGED <<dest, config, startup, record_ids, num_records, iterations,
                   batch_size, total_imported, locals, reported>>

\* Lines 327-332: the loop is over, log the two totals.
Finish ==
    /\ pc = "loop"
    /\ ~ (i < iterations)
    /\ reported' = [imported |-> total_imported,
                    failed |-> ReportFailed(num_records, total_imported)]
    /\ pc' = "done"
    /\ UNCHANGED <<src, dest, config, startup, record_ids, num_records, iterations,
                   batch_size, i, total_imported, locals, calls, cur, last>>

Next ==
    \/ StartTransfer
    \/ ExportBatch
    \/ ImportValid
    \/ MoveRecords
    \/ WriteBack
    \/ Finish

Spec == Init /\ [][Next]_vars

TypeOK ==
    /\ pc \in {"main", "longitudinal", "arms", "events", "mappings",
               "repeating", "instruments", "compatible", "ended", "exit",
               "start", "loop", "import", "move", "writeback", "done",
               "returned", "crashed", "engine", "legacy", "legacy_loop",
               "halted"}
    /\ i \in 0..MaxIds
    /\ total_imported \in 0..MaxIds

\* ------------------------------------------------------- main
\* What an export of a settings text returns: the text, or False when the
\* HTTP status is not OK.
Retrieved(text, ok) == IF ok THEN text ELSE "False"

\* Python's `not x` for a `str | bool` export result.
Falsy(x) == x \in {"", "False"}

\* The text of a project flag in the history.
Flag(b) == IF b THEN "1" ELSE "0"

\* One entry of the history of compared settings.
Query(aspect, s, d) == [aspect |-> aspect, src |-> s, dest |-> d]

\* main enters the transfer whatever compare_project_settings returned.
Return_always(v) ==
    /\ compared' = Append(compared, v)
    /\ pc' = "compatible"

\* compare_project_settings returns v; main goes on to set_quality_checker
\* when v is True and to the end of the run when it is False.
Return(v) ==
    /\ compared' = Append(compared, v)
    /\ pc' = IF v THEN "compatible" ELSE "ended"

\* The comparison goes on to the next aspect after a mismatch.
Compare_continue(aspect, s, d, mismatch, next) ==
    /\ queries' = Append(queries, Query(aspect, s, d))
    /\ pc' = next
    /\ UNCHANGED compared

\* One aspect compared: the run returns False on a mismatch.
Compare(aspect, s, d, mismatch, next) ==
    /\ queries' = Append(queries, Query(aspect, s, d))
    /\ IF mismatch
       THEN Return(FALSE)
       ELSE /\ pc' = next
            /\ UNCHANGED compared

rest == <<src, dest, config, record_ids, num_records, iterations, batch_size,
          i, total_imported, locals, calls, cur, last, reported, engine>>

\* Lines 115-126: the data dictionaries, which cannot be empty.
CompareDictionary ==
    /\ pc = "main"
    /\ \E oks, okd \in BOOLEAN :
        LET src_dict == Retrieved(settings.src.dict, oks)
            dest_dict == Retrieved(settings.dest.dict, okd)
        IN  Compare("dictionary", src_dict, dest_dict,
                    Falsy(src_dict) \/ Falsy(dest_dict) \/ src_dict # dest_dict,
                    "longitudinal")
    /\ UNCHANGED rest

\* Lines 128-135: the longitudinal flags.
CompareLongitudinal ==
    /\ pc = "longitudinal"
    /\ LET src_lng == settings.src.lng
           dest_lng == settings.dest.lng
       IN  Compare("longitudinal", Flag(src_lng), Flag(dest_lng),
                   (src_lng /\ ~ dest_lng) \/ (dest_lng /\ ~ src_lng),
                   IF src_lng /\ dest_lng THEN "arms" ELSE "repeating")
    /\ UNCHANGED rest

\* Lines 137-146: the arms definitions.
CompareArms ==
    /\ pc = "arms"
    /\ \E oks, okd \in BOOLEAN :
        LET src_arms == Retrieved(settings.src.arms, oks)
            dest_arms == Retrieved(settings.dest.arms, okd)
        IN  Compare("arms", src_arms, dest_arms, src_arms # dest_arms, "events")
    /\ UNCHANGED rest

\* Lines 148-156: the event definitions.
CompareEvents ==
    /\ pc = "events"
    /\ \E oks, okd \in BOOLEAN :
        LET src_events == Retrieved(settings.src.events, oks)
            dest_events == Retrieved(settings.dest.events, okd)
        IN  Compare("events", src_events, dest_events,
                    src_events # dest_events, "mappings")
    /\ UNCHANGED rest

\* Lines 158-166: the form-event mappings.
CompareMappings ==
    /\ pc = "mappings"
    /\ \E oks, okd \in BOOLEAN :
        LET src_evnt_map == Retrieved(settings.src.maps, oks)
            dest_evnt_map == Retrieved(settings.dest.maps, okd)
        IN  Compare("mappings", src_evnt_map, dest_evnt_map,
                    src_evnt_map # dest_evnt_map, "repeating")
    /\ UNCHANGED rest

\* Lines 168-175: the repeating-instruments flags.
CompareRepeating ==
    /\ pc = "repeating"
    /\ LET src_ins == settings.src.rpt
           dest_ins == settings.dest.rpt
       IN  /\ queries' = Append(queries,
                   Query("repeating", Flag(src_ins), Flag(dest_ins)))
           /\ IF (src_ins /\ ~ dest_ins) \/ (dest_ins /\ ~ src_ins)
              THEN Return(FALSE)
              ELSE IF src_ins /\ dest_ins
              THEN /\ pc' = "instruments"
                   /\ UNCHANGED compared
              ELSE Return(TRUE)
    /\ UNCHANGED rest

\* Lines 177-187: the repeating-instrument definitions, the last aspect.
CompareInstruments ==
    /\ pc = "instruments"
    /\ \E oks, okd \in BOOLEAN :
        LET src_rpt_ins == Retrieved(settings.src.ins, oks)
            dest_rpt_ins == Retrieved(settings.dest.ins, okd)
        IN  /\ queries' = Append(queries,
                    Query("instruments", src_rpt_ins, dest_rpt_ins))
            /\ Return(src_rpt_ins = dest_rpt_ins)
    /\ UNCHANGED rest

\* Parser.load_validation_schema: found_all is False when the definition of
\* a selected form could not be loaded.
found_all(store) == store # "missing"

\* A definition that cannot be loaded is only warned about in either mode.
load_rules_lenient(fs, mode, store) ==
    IF fs # <<>>
    THEN IF store = "rejected" THEN "Schema Error" ELSE ""
    ELSE IF mode
    THEN "Failed to load validation rules, forms list is empty"
    ELSE ""

\* QualityCheck.__load_rules called with the forms and the mode of
\* set_quality_checker: the QualityCheckException raised, "" when none is.
load_rules(fs, mode, store) ==
    IF fs # <<>>
    THEN IF ~ found_all(store) /\ mode
         THEN "Missing validation rule definitions"
         ELSE IF store = "rejected" THEN "Schema Error" ELSE ""
    ELSE IF mode
    THEN "Failed to load validation rules, forms list is empty"
    ELSE ""

\* The QualityCheck built: its schema declares field `val` when the
\* definition of its form was loaded.
QualityCheck(fs, store) ==
    [set |-> TRUE,
     validated |-> fs # <<>> /\ store \in {"found", "malformed", "misnamed"},
     malformed |-> fs # <<>> /\ store = "malformed"]

\* DataHandler.validate_variable_names: every key of the schema is a
\* variable of the data dictionary.
validate_variable_names(fs, store) == ~ (fs # <<>> /\ store = "misnamed")

\* DataHandler.set_quality_checker and the `sys.exit(1)` of main.
SetQualityChecker ==
    /\ pc = "compatible"
    /\ IF load_rules(forms, strict, rules) # ""
       THEN /\ pc' = "exit"
            /\ UNCHANGED qual_check
       ELSE /\ qual_check' = QualityCheck(forms, rules)
            /\ pc' = IF validate_variable_names(forms, rules)
                     THEN "start" ELSE "exit"
    /\ UNCHANGED <<src, dest, all_forms, forms, events, qc_err_form,
                   batch_size_val, move, environ, settings, strict, rules,
                   record_ids,
                   num_records, iterations, batch_size, i, total_imported,
                   locals, calls, cur, last, reported, startup>>

\* decouple.config(name, default, cast): the default when the environment
\* does not set the name, the cast of its text otherwise.
config_bool(text, default) == IF text = "" THEN default ELSE text = "true"

\* Params.load_parameters, for MOVE_RECORDS.
load_parameters(env) == [MOVE_RECORDS |-> config_bool(env, TRUE)]

\* The set-ups of a whole run: every form selected, or a project whose only
\* form is the error form (no form left to validate).
MainSetups ==
    { Setup(<<"f1", "f2", ErrForm>>, <<>>, <<>>, ErrForm),
      Setup(<<ErrForm>>, <<>>, <<>>, ErrForm) }

\* The state when main has constructed the DataHandler; the source project
\* is empty or holds one record.
MainInit ==
    /\ \E n \in 0..1 : \E f \in Layouts(n) : src = Project(n, f)
    /\ \E s \in MainSetups : Constructed(s)
    /\ batch_size_val = MaxBatch
    /\ environ \in {"", "true", "false"}
    /\ move = load_parameters(environ).MOVE_RECORDS
    /\ pc = "main"
    /\ Fresh
    /\ settings \in SettingsPairs
    /\ strict \in BOOLEAN
    /\ rules \in RuleStores
    /\ qual_check = NoQualityCheck
    /\ engine = Idle

MainNext ==
    \/ CompareDictionary
    \/ CompareLongitudinal
    \/ CompareArms
    \/ CompareEvents
    \/ CompareMappings
    \/ CompareRepeating
    \/ CompareInstruments
    \/ SetQualityChecker
    \/ StartTransfer
    \/ ExportBatch
    \/ ImportValid
    \/ MoveRecords
    \/ WriteBack
    \/ Finish

MainSpec == MainInit /\ [][MainNext]_vars

\* ------------------------------------------------------- legacy move_data
\* redcap_api.DataHandler.validate_data: no rule is implemented.
legacy_validate_data(recs) == TRUE

\* Lines 62-81 of redcap_api/data_handler.py: the primary key and the
\* identifiers of the source, then the size of the loop.
LegacyStart ==
    /\ pc = "legacy"
    /\ \E key, ok \in BOOLEAN :
        LET found == key /\ ok /\ src # {}
            ids == IF found THEN UniqueIds(src) ELSE <<>>
        IN  /\ calls' = IF key
                        THEN Append(calls,
                                 Call("export_record_ids", TRUE, Range(ids), {},
                                      IF found THEN Len(ids) ELSE Absent))
                        ELSE calls
            /\ record_ids' = ids
            /\ IF found
               THEN /\ num_records' = Len(ids)
                    /\ iterations' = Iterations(Len(ids), batch_size_val)
                    /\ batch_size' = BatchSize(Len(ids), batch_size_val)
                    /\ pc' = "legacy_loop"
               ELSE /\ pc' = "returned"
                    /\ UNCHANGED <<num_records, iterations, batch_size>>
    /\ i' = 0
    /\ UNCHANGED <<src, dest, config, startup, locals, cur, last, reported,
                   total_imported>>

\* Lines 84-118: one pass through the body of the loop.  The pass ends with
\* `i += 1`, with `break` (no records exported, nothing imported, nothing
\* deleted) or with `continue` when validate_data returns False.
LegacyBatch ==
    /\ pc = "legacy_loop"
    /\ i < iterations
    /\ \E exported, imported, deleted \in BOOLEAN :
        LET arg == RecordIdsArg(i)
            recs == Exported(arg)
            got == exported /\ recs # {}
            export == Call("export_records", arg.all, arg.ids,
                           IF got THEN recs ELSE {},
                           IF got THEN Cardinality(recs) ELSE Absent)
            import == Call("import_dest", FALSE, IdsOf(recs), recs,
                           IF imported THEN ImportCount(recs) ELSE Absent)
            delete == Call("delete_records", FALSE, Slice(i), {},
                           IF deleted THEN Cardinality(Slice(i)) ELSE Absent)
        IN  IF ~ got
            THEN /\ calls' = Append(calls, export)
                 /\ pc' = "halted"
                 /\ UNCHANGED <<src, dest, i>>
            ELSE IF ~ legacy_validate_data(recs)
            THEN /\ calls' = Append(calls, export)
                 /\ UNCHANGED <<src, dest, i, pc>>
            ELSE IF ~ imported
            THEN /\ calls' = calls \o <<export, import>>
                 /\ pc' = "halted"
                 /\ UNCHANGED <<src, dest, i>>
            ELSE IF ~ move
            THEN /\ calls' = calls \o <<export, import>>
                 /\ dest' = dest \cup recs
                 /\ i' = i + 1
                 /\ UNCHANGED <<src, pc>>
            ELSE IF ~ deleted
            THEN /\ calls' = calls \o <<export, import, delete>>
                 /\ dest' = dest \cup recs
                 /\ pc' = "halted"
                 /\ UNCHANGED <<src, i>>
            ELSE /\ calls' = calls \o <<export, import, delete>>
                 /\ dest' = dest \cup recs
                 /\ src' = Remove(src, Slice(i))
                 /\ i' = i + 1
                 /\ UNCHANGED pc
    /\ UNCHANGED <<config, startup, locals, cur, last, reported, record_ids,
                   num_records, iterations, batch_size, total_imported>>

\* Line 84: the condition of the loop fails and move_data returns.
LegacyFinish ==
    /\ pc = "legacy_loop"
    /\ ~ (i < iterations)
    /\ pc' = "done"
    /\ UNCHANGED <<src, dest, config, startup, locals, cur, last, reported,
                   record_ids, num_records, iterations, batch_size, i,
                   total_imported, calls>>

\* The state at the call of the legacy move_data: batch_size and
\* move_records of Configs.configs, a DataHandler without forms.
LegacyInit ==
    /\ \E n \in 0..MaxIds : \E f \in Layouts(n) : src = Project(n, f)
    /\ Constructed(Setup(<<"f1", ErrForm>>, <<>>, <<>>, ErrForm))
    /\ batch_size_val \in (0 - 1)..MaxBatch
    /\ move \in BOOLEAN
    /\ environ = (IF move THEN "true" ELSE "false")
    /\ pc = "legacy"
    /\ Fresh
    /\ settings = [src |-> Settings(FALSE, FALSE),
                   dest |-> Settings(FALSE, FALSE)]
    /\ strict = TRUE
    /\ rules = "found"
    /\ qual_check = NoQualityCheck
    /\ engine = Idle

\* Both batch loops: a run of transfer_data or a run of the legacy
\* move_data.  The program is one thread that takes its next step whenever
\* it has one.
LoopsInit == Init \/ LegacyInit

LoopsNext ==
    \/ StartTransfer
    \/ ExportBatch
    \/ ImportValid
    \/ MoveRecords
    \/ WriteBack
    \/ Finish
    \/ LegacyStart
    \/ LegacyBatch
    \/ LegacyFinish

LoopsSpec == LoopsInit /\ [][LoopsNext]_vars /\ WF_vars(LoopsNext)

\* ------------------------------------------------------- validator package
\* Strings are sequences of characters, so that casting is computed.  A
\* value of a record is None, an int or a str.
None == [kind |-> "None", n |-> 0, s |-> <<>>]

IntVal(n) == [kind |-> "int", n |-> n, s |-> <<>>]

StrVal(s) == [kind |-> "str", n |-> 0, s |-> s]

\* int(...) raised ValueError.
ValueError == [kind |-> "ValueError", n |-> 0, s |-> <<>>]

\* Python truthiness of a value: None, 0 and '' are falsy.
Bool(v) == (v.kind = "int" /\ v.n # 0) \/ (v.kind = "str" /\ v.s # <<>>)

Digit(c) ==
    CASE c = "0" -> 0 [] c = "1" -> 1 [] c = "2" -> 2 [] c = "3" -> 3
      [] c = "4" -> 4 [] c = "5" -> 5 [] c = "6" -> 6 [] c = "7" -> 7
      [] c = "8" -> 8 [] c = "9" -> 9 [] OTHER -> Absent

RECURSIVE Decimal(_)
Decimal(s) ==
    IF s = <<>> THEN 0
    ELSE 10 * Decimal(SubSeq(s, 1, Len(s) - 1)) + Digit(s[Len(s)])

RECURSIVE lstrip(_)
lstrip(s) == IF s # <<>> /\ Head(s) = " " THEN lstrip(Tail(s)) ELSE s

RECURSIVE rstrip(_)
rstrip(s) ==
    IF s # <<>> /\ s[Len(s)] = " " THEN rstrip(SubSeq(s, 1, Len(s) - 1)) ELSE s

\* int(s) for a str of digits with blanks around it; ValueError otherwise.
int(s) ==
    LET t == lstrip(rstrip(s))
    IN  IF t # <<>> /\ \A k \in 1..Len(t) : Digit(t[k]) # Absent
        THEN IntVal(Decimal(t))
        ELSE ValueError

\* A record (and the document made of it) as a dict in insertion order.
Item(field, value) == [field |-> field, value |-> value]

Has(document, field) == \E k \in 1..Len(document) : document[k].field = field

Value(document, field) ==
    document[CHOOSE k \in 1..Len(document) : document[k].field = field].value

\* A rule of a field: its name and its argument (a flag for filled, a bound
\* for min and max, the values for allowed, the list for constraints).
Rule(rule, flag, bound, allowed, list) ==
    [rule |-> rule, flag |-> flag, bound |-> bound, allowed |-> allowed,
     list |-> list]

Filled(flag) == Rule("filled", flag, 0, {}, <<>>)

MinRule(bound) == Rule("min", FALSE, bound, {}, <<>>)

MaxRule(bound) == Rule("max", FALSE, bound, {}, <<>>)

AllowedRule(allowed) == Rule("allowed", FALSE, 0, allowed, <<>>)

ConstraintsRule(list) == Rule("constraints", FALSE, 0, {}, list)

\* The conditions on one dependent field in the 'if' part of a constraint.
Dependency(field, conds) == [field |-> field, conds |-> conds]

\* A constraint of a constraints list; has_if and has_then tell whether the
\* attribute is written in the definition.
Constraint(has_if, if, has_then, then) ==
    [has_if |-> has_if, if |-> if, has_then |-> has_then, then |-> then]

\* The definition of a field in the schema: its cerberus type ("" when none
\* is declared), its custom error message (meta.errmsg) and its rules in the
\* order of declaration.
Definition(field, type, errmsg, rls) ==
    [field |-> field, type |-> type, errmsg |-> errmsg, rules |-> rls]

Declared(schema, field) == \E k \in 1..Len(schema) : schema[k].field = field

DefinitionOf(schema, field) ==
    schema[CHOOSE k \in 1..Len(schema) : schema[k].field = field]

\* RuleValidator.__populate_data_types: the python type of every field that
\* declares a type; None when the schema is empty.
populate_data_types(schema) ==
    {[field |-> schema[k].field,
      dtype |-> CASE schema[k].type = "integer" -> "int"
                  [] schema[k].type = "string" -> "str"
                  [] OTHER -> ""] :
        k \in {j \in 1..Len(schema) : schema[j].type # ""}}

\* The body of the loop of cast_record for one item.
CastItem(dtypes, item) ==
    IF ~ Bool(item.value)
    THEN Item(item.field, None)
    ELSE IF [field |-> item.field, dtype |-> "int"] \in dtypes
    THEN LET cast == int(item.value.s)
         IN  Item(item.field, IF cast = ValueError THEN item.value ELSE cast)
    ELSE item

\* RuleValidator.cast_record
cast_record(dtypes, record) ==
    IF dtypes = {} THEN record
    ELSE [k \in 1..Len(record) |-> CastItem(dtypes, record[k])]

\* An error of a field: the rule that raised it (for a constraint, its place
\* in the constraints list), the pieces of its message and, for a
\* constraint, the dependency conditions the message ends with.
Error(field, rule, index, text, conds) ==
    [field |-> field, rule |-> rule, index |-> index, text |-> text,
     conds |-> conds]

RECURSIVE Flatten(_)
Flatten(seqs) ==
    IF seqs = <<>> THEN <<>> ELSE Head(seqs) \o Flatten(Tail(seqs))

\* RuleValidator._validate_filled: the message of the error, "" when none.
validate_filled(filled, value) ==
    IF ~ filled /\ Bool(value) THEN "must be empty"
    ELSE IF filled /\ ~ Bool(value) THEN "cannot be empty"
    ELSE ""

\* The message of one rule other than constraints on a value.  min and max
\* of cerberus compare numbers (the TypeError of another value is swallowed),
\* allowed asks for membership.
RuleMessage(r, value) ==
    CASE r.rule = "filled" -> validate_filled(r.flag, value)
      [] r.rule = "min" ->
            IF value.kind = "int" /\ value.n < r.bound
            THEN "min value" ELSE ""
      [] r.rule = "max" ->
            IF value.kind = "int" /\ value.n > r.bound
            THEN "max value" ELSE ""
      [] r.rule = "allowed" ->
            IF value.kind = "int" /\ value.n \in r.allowed
            THEN "" ELSE "unallowed value"
      [] OTHER -> ""

\* The errors of a validator whose schema is {field: conds}, conds holding
\* no constraints, on the value of the field.
SubErrors(field, conds, value) ==
    LET judged == [k \in 1..Len(conds) |->
                      Error(field, conds[k].rule, 0,
                            <<RuleMessage(conds[k], value)>>, <<>>)]
    IN  SelectSeq(judged, LAMBDA e : e.text # <<"">>)

\* temp_validator.validate(self.document) for one dependent field: a field
\* the document lacks is not evaluated (unknown fields are allowed).
DependencyHolds(dep, document) ==
    Has(document, dep.field) =>
        SubErrors(dep.field, dep.conds, Value(document, dep.field)) = <<>>

\* The 'then' part is evaluated when some dependency holds.
ConstraintErrors_any(index, c, field, value, document) ==
    LET valid == \E k \in 1..Len(c.if) : DependencyHolds(c.if[k], document)
        errors == IF valid THEN SubErrors(field, c.then, value) ELSE <<>>
    IN  IF errors # <<>>
        THEN <<Error(field, "constraints", index,
                     Flatten([k \in 1..Len(errors) |-> errors[k].text]),
                     c.if)>>
        ELSE <<>>

\* Lines 142-162: the error of the constraint at place index of the list;
\* the 'then' part is evaluated when no dependency fails.
ConstraintErrors(index, c, field, value, document) ==
    LET valid == \A k \in 1..Len(c.if) : DependencyHolds(c.if[k], document)
        errors == IF valid THEN SubErrors(field, c.then, value) ELSE <<>>
    IN  IF errors # <<>>
        THEN <<Error(field, "constraints", index,
                     Flatten([k \in 1..Len(errors) |-> errors[k].text]),
                     c.if)>>
        ELSE <<>>

\* The evaluation of a constraints list ends at its first violated constraint.
validate_constraints_first(constraints, field, value, document) ==
    LET all == Flatten([k \in 1..Len(constraints) |->
                   ConstraintErrors(k, constraints[k], field, value,
                                    document)])
    IN  [raised |-> \E k \in 1..Len(constraints) :
                        ~ constraints[k].has_if \/ ~ constraints[k].has_then,
         errors |-> IF all = <<>> THEN <<>> ELSE <<Head(all)>>]

\* RuleValidator._validate_constraints: SchemaError is raised at a constraint
\* that lacks 'if' or 'then', the loop having no other way out.
validate_constraints(constraints, field, value, document) ==
    [raised |-> \E k \in 1..Len(constraints) :
                    ~ constraints[k].has_if \/ ~ constraints[k].has_then,
     errors |-> Flatten([k \in 1..Len(constraints) |->
                   ConstraintErrors(k, constraints[k], field, value,
                                    document)])]

\* The rules of a declared field on its value, in the order of declaration.
FieldResult(def, value, document) ==
    LET one(r) ==
            IF r.rule = "constraints"
            THEN validate_constraints(r.list, def.field, value, document)
            ELSE [raised |-> FALSE,
                  errors |-> SubErrors(def.field, <<r>>, value)]
    IN  [raised |-> \E k \in 1..Len(def.rules) : one(def.rules[k]).raised,
         errors |-> Flatten([k \in 1..Len(def.rules) |->
                                one(def.rules[k]).errors])]

\* Every error counts but those of unknown fields.
validate_lenient(schema, document, allow_unknown) ==
    LET one(item) ==
            IF Declared(schema, item.field)
            THEN FieldResult(DefinitionOf(schema, item.field), item.value,
                             document)
            ELSE [raised |-> FALSE,
                  errors |-> IF allow_unknown THEN <<>>
                             ELSE <<Error(item.field, "unknown", 0,
                                          <<"unknown field">>, <<>>)>>]
        errors == Flatten([k \in 1..Len(document) |-> one(document[k]).errors])
    IN  [raised |-> \E k \in 1..Len(document) : one(document[k]).raised,
         passed |-> \A k \in 1..Len(errors) : errors[k].rule = "unknown",
         errors |-> errors]

\* Validator.validate(document, normalize=False) of the RuleValidator: every
\* field of the document is evaluated by the rules of its definition, a
\* field without definition is an error unless unknown fields are allowed;
\* the result is True when no error was recorded.
validate(schema, document, allow_unknown) ==
    LET one(item) ==
            IF Declared(schema, item.field)
            THEN FieldResult(DefinitionOf(schema, item.field), item.value,
                             document)
            ELSE [raised |-> FALSE,
                  errors |-> IF allow_unknown THEN <<>>
                             ELSE <<Error(item.field, "unknown", 0,
                                          <<"unknown field">>, <<>>)>>]
        errors == Flatten([k \in 1..Len(document) |-> one(document[k]).errors])
    IN  [raised |-> \E k \in 1..Len(document) : one(document[k]).raised,
         passed |-> errors = <<>>,
         errors |-> errors]

\* CustomErrorHandler._format_message: the custom message of the field in
\* place of the message of the error; indexing the schema by a field it
\* does not declare raises KeyError.
format_message(custom_schema, error) ==
    IF custom_schema # <<>>
    THEN IF ~ Declared(custom_schema, error.field)
         THEN Error(error.field, "KeyError", 0, <<>>, <<>>)
         ELSE IF DefinitionOf(custom_schema, error.field).errmsg # ""
         THEN Error(error.field, error.rule, error.index,
                    <<error.field, ": ",
                      DefinitionOf(custom_schema, error.field).errmsg>>, <<>>)
         ELSE error
    ELSE error

\* cast_record is handed the record of the caller itself, which it changes
\* in place.
CheckRecord_inplace(qc, record) ==
    LET cst_record == cast_record(populate_data_types(qc.schema), record)
        result == validate(qc.schema, cst_record, ~ qc.strict)
        errors == [k \in 1..Len(result.errors) |->
                      format_message(qc.schema, result.errors[k])]
    IN  [raised |-> IF result.raised THEN "SchemaError"
                    ELSE IF \E k \in 1..Len(errors) : errors[k].rule = "KeyError"
                    THEN "KeyError" ELSE "",
         cast |-> cst_record,
         passed |-> result.passed,
         errors |-> errors,
         record |-> cst_record]

\* QualityCheck.check_record_cerberus on the engine qc = [schema, strict]:
\* the exception raised ("" when none), passed, the errors, and the record
\* of the caller after the call: cast_record assigns into the dict it is
\* given, which is record.copy(), a dict of its own whose values are the
\* immutable strs of the record.
CheckRecord(qc, record) ==
    LET copy == record
        cst_record == cast_record(populate_data_types(qc.schema), copy)
        result == validate(qc.schema, cst_record, ~ qc.strict)
        errors == [k \in 1..Len(result.errors) |->
                      format_message(qc.schema, result.errors[k])]
    IN  [raised |-> IF result.raised THEN "SchemaError"
                    ELSE IF \E k \in 1..Len(errors) : errors[k].rule = "KeyError"
                    THEN "KeyError" ELSE "",
         cast |-> cst_record,
         passed |-> result.passed,
         errors |-> errors,
         record |-> record]

\* The error message of a Rule as the pieces of its text: '' or the text of
\* the failed range check with the values it interpolates.
EmptyMessage == <<>>

RangeMessage(var_name, var_value, min_val, max_val) ==
    <<"Range check failed for the field \"", var_name,
      "\": current value - ", ToString(var_value), ", expected range - ",
      "[", ToString(min_val), " - ", ToString(max_val), "]">>

NumericRangeRule(min_val, max_val) ==
    [code |-> "NUMRANGE", min_val |-> min_val, max_val |-> max_val]

\* The bounds themselves are outside the range.
apply_open(r, var_name, var_value) ==
    IF r.min_val < var_value /\ var_value < r.max_val
    THEN [ok |-> TRUE, error_msg |-> EmptyMessage]
    ELSE [ok |-> FALSE,
          error_msg |-> RangeMessage(var_name, var_value, r.min_val, r.max_val)]

\* NumericRangeRule.apply: the value returned and the error message set.
apply(r, var_name, var_value) ==
    IF r.min_val <= var_value /\ var_value <= r.max_val
    THEN [ok |-> TRUE, error_msg |-> EmptyMessage]
    ELSE [ok |-> FALSE,
          error_msg |-> RangeMessage(var_name, var_value, r.min_val, r.max_val)]

\* A form variable: its name, its rules and the errors of its last validation.
Variable(name, rls, errors) == [name |-> name, rules |-> rls, errors |-> errors]

\* Variable.validate: the value returned and the errors list after the call.
VariableValidate(variable, value) ==
    LET applied == [k \in 1..Len(variable.rules) |->
                       apply(variable.rules[k], variable.name, value)]
        failed == SelectSeq(applied, LAMBDA a : ~ a.ok)
    IN  [valid |-> \A k \in 1..Len(applied) : applied[k].ok,
         errors |-> [k \in 1..Len(failed) |-> failed[k].error_msg]]

\* Variable.cast_value of a variable of the given data type: None for the
\* empty str, the int of an 'INT' variable, the raw str when int() raises
\* ValueError or the type asks for no conversion.
cast_value(data_type, value) ==
    IF value = <<>> THEN None
    ELSE IF data_type = "INT"
    THEN LET cast == int(value)
         IN  IF cast = ValueError THEN StrVal(value) ELSE cast
    ELSE StrVal(value)

\* Variable.validate on a value as cast_value returns it: the comparison of
\* the bounds of a rule with None or with a str raises TypeError at the
\* first rule, after the errors were cleared.
ValidateValue(variable, value) ==
    IF value.kind = "int"
    THEN LET result == VariableValidate(variable, value.n)
         IN  [raised |-> "", valid |-> result.valid, errors |-> result.errors]
    ELSE IF variable.rules = <<>>
    THEN [raised |-> "", valid |-> TRUE, errors |-> <<>>]
    ELSE [raised |-> "TypeError", valid |-> FALSE, errors |-> <<>>]

\* A field definition of a form definition file: complete when it has the
\* keys name, type, label and rules; its rules are the rule definitions
\* that validate_rule_def accepts and get_rule_object turns into a rule.
FieldDef(name, type, complete, rls) ==
    [name |-> name, type |-> type, complete |-> complete, rules |-> rls]

\* A form definition file: whether it is opened and decoded, and the field
\* definitions under its key 'fields'.
FormDef(loaded, fields) == [loaded |-> loaded, fields |-> fields]

\* An entry of the variables dictionary: the Variable made of a field
\* definition, with its data type.
Entry(def) ==
    [name |-> def.name, data_type |-> def.type,
     variable |-> Variable(def.name, def.rules, <<>>)]

\* The first Variable registered under a name stays.
store_first(variables, entry) ==
    IF \E k \in 1..Len(variables) : variables[k].name = entry.name
    THEN variables
    ELSE Append(variables, entry)

\* variables[field_name] = variable: a new key is added at the end of the
\* dictionary, the value of a key it holds is replaced.
store(variables, entry) ==
    IF \E k \in 1..Len(variables) : variables[k].name = entry.name
    THEN [k \in 1..Len(variables) |->
             IF variables[k].name = entry.name THEN entry ELSE variables[k]]
    ELSE Append(variables, entry)

\* Lines 55-70: the field definitions of one form; a definition that is
\* incomplete or ends with no rule registers no Variable.
RECURSIVE parse_fields(_, _)
parse_fields(variables, field_defs) ==
    IF field_defs = <<>> THEN variables
    ELSE LET def == Head(field_defs)
         IN  parse_fields(IF def.complete /\ def.rules # <<>>
                          THEN store(variables, Entry(def))
                          ELSE variables,
                          Tail(field_defs))

\* Parser.parse_json from the dictionary built so far: the forms in the
\* order of the list, a form whose file fails to load being skipped.
RECURSIVE parse_forms(_, _, _)
parse_forms(variables, form_list, files) ==
    IF form_list = <<>> THEN variables
    ELSE LET form_def == files[Head(form_list)]
         IN  parse_forms(IF form_def.loaded
                         THEN parse_fields(variables, form_def.fields)
                         ELSE variables,
                         Tail(form_list), files)

parse_json(form_list, files) == parse_forms(<<>>, form_list, files)

\* ---------------------------------------------------- engine inputs
\* Raw values of field a: empty, zero, in range, above the range, not a
\* number, a blank.
RawValues == {<<>>, <<"0">>, <<"5">>, <<"1", "2">>, <<"n", "a">>, <<" ">>}

\* Records exported from REDCap: every value a str; x is a field no schema
\* declares.
Records ==
    {<<Item("a", StrVal(a)), Item("b", StrVal(b)), Item("c", StrVal(c))>> \o u :
        a \in RawValues, b \in {<<>>, <<"1">>, <<"2">>}, c \in {<<"1">>, <<"2">>},
        u \in {<<>>, <<Item("x", StrVal(<<"5">>))>>}}

\* if b is 1 then a is at most 9; if b is at least 1 and c is 1 then a is 5.
WhenB == Constraint(TRUE, <<Dependency("b", <<AllowedRule({1})>>)>>,
                    TRUE, <<MaxRule(9)>>)

WhenBC == Constraint(TRUE, <<Dependency("b", <<MinRule(1)>>),
                             Dependency("c", <<AllowedRule({1})>>)>>,
                     TRUE, <<AllowedRule({5})>>)

\* The rules declared for field a in the schemas tried.
RuleLists ==
    { <<>>,
      <<Filled(TRUE)>>,
      <<Filled(FALSE)>>,
      <<Filled(FALSE), MaxRule(9)>>,
      <<MinRule(1), Filled(TRUE)>>,
      <<ConstraintsRule(<<WhenB, WhenBC>>)>>,
      <<ConstraintsRule(<<WhenB, Constraint(TRUE, WhenBC.if, FALSE, <<>>)>>)>>,
      <<ConstraintsRule(<<Constraint(FALSE, <<>>, TRUE, WhenB.then)>>)>> }

\* The schemas tried: empty, or definitions of a, b and c.
Schemas ==
    {<<>>} \cup
    {<<Definition("a", ta, errmsg, rls), Definition("b", tb, "", <<>>),
       Definition("c", tb, "", <<>>)>> :
        ta \in {"integer", ""}, tb \in {"integer", ""},
        errmsg \in {"", "check a"}, rls \in RuleLists}

RangeRules == {NumericRangeRule(lo, hi) : lo, hi \in 1..3}

Variables ==
    {Variable("age", rls, stale) :
        rls \in {<<>>} \cup {<<r>> : r \in RangeRules}
                \cup {<<NumericRangeRule(2, 3), r>> : r \in RangeRules},
        stale \in {<<>>, <<RangeMessage("age", 0, 1, 1)>>}}

\* The field definitions tried in form definition files: of a and b, with
\* no rule, one of two ranges, or an incomplete definition.
FieldDefs ==
    {FieldDef(name, "INT", TRUE, rls) :
        name \in {"a", "b"},
        rls \in {<<>>, <<NumericRangeRule(1, 2)>>, <<NumericRangeRule(2, 3)>>}}
    \cup {FieldDef(name, "INT", FALSE, <<NumericRangeRule(1, 2)>>) :
              name \in {"a", "b"}}

\* The form definition files tried: missing, or one or two field
\* definitions of different fields.
FormDefs ==
    {FormDef(FALSE, <<>>)}
    \cup {FormDef(TRUE, <<d>>) : d \in FieldDefs}
    \cup {FormDef(TRUE, <<d, e>>) :
              d \in {x \in FieldDefs : x.name = "a"},
              e \in {x \in FieldDefs : x.name = "b"}}
    \cup {FormDef(TRUE, <<e, d>>) :
              d \in {x \in FieldDefs : x.name = "a" /\ x.complete},
              e \in {x \in FieldDefs : x.name = "b" /\ x.complete}}

NoResult ==
    [raised |-> "", cast |-> <<>>, passed |-> FALSE, errors |-> <<>>,
     record |-> <<>>]

\* The engine before its call: a QualityCheck and a record, a Variable and a
\* value, or a NumericRangeRule and a value.
EngineInputs ==
    {[kind |-> "cerberus", phase |-> "input",
      qc |-> [schema |-> sch, strict |-> mode], record |-> rec,
      result |-> NoResult] :
        sch \in Schemas, mode \in BOOLEAN, rec \in Records}
    \cup
    {[kind |-> "variable", phase |-> "input", variable |-> v, value |-> n,
      valid |-> FALSE] : v \in Variables, n \in 0..4}
    \cup
    {[kind |-> "rule", phase |-> "input", rule |-> r, value |-> n,
      ok |-> FALSE, error_msg |-> EmptyMessage] : r \in RangeRules, n \in 0..4}
    \cup
    {[kind |-> "value", phase |-> "input", variable |-> v, data_type |-> t,
      raw |-> raw, cast |-> None, raised |-> "", valid |-> FALSE] :
        v \in Variables, t \in {"INT", "STR"}, raw \in RawValues}
    \cup
    {[kind |-> "parse", phase |-> "input", form_list |-> order,
      files |-> [f \in {"f1", "f2"} |-> IF f = "f1" THEN d1 ELSE d2],
      variables |-> <<>>] :
        order \in {<<"f1", "f2">>, <<"f2", "f1">>},
        d1 \in FormDefs, d2 \in FormDefs}

EngineInit ==
    /\ engine \in EngineInputs
    /\ pc = "engine"
    /\ src = {}
    /\ Constructed(Setup(<<"f1", ErrForm>>, <<>>, <<>>, ErrForm))
    /\ batch_size_val = 0
    /\ move = FALSE
    /\ environ = "false"
    /\ Fresh
    /\ settings = [src |-> Settings(FALSE, FALSE),
                   dest |-> Settings(FALSE, FALSE)]
    /\ strict = TRUE
    /\ rules = "found"
    /\ qual_check = NoQualityCheck

others == <<src, dest, config, record_ids, pc, num_records, iterations,
            batch_size, i, total_imported, locals, calls, cur, last, reported,
            queries, compared>>

\* QualityCheck.check_record_cerberus(record)
CheckRecordCerberus ==
    /\ engine.kind = "cerberus" /\ engine.phase = "input"
    /\ LET result == CheckRecord(engine.qc, engine.record)
       IN  engine' = [engine EXCEPT
                !.phase = IF result.raised # "" THEN "raised" ELSE "returned",
                !.record = result.record,
                !.result = result]
    /\ UNCHANGED others

\* Variable.validate(value)
ValidateVariable ==
    /\ engine.kind = "variable" /\ engine.phase = "input"
    /\ LET result == VariableValidate(engine.variable, engine.value)
       IN  engine' = [engine EXCEPT
                !.phase = "returned",
                !.valid = result.valid,
                !.variable = Variable(@.name, @.rules, result.errors)]
    /\ UNCHANGED others

\* NumericRangeRule.apply(var_name, var_value)
ApplyRule ==
    /\ engine.kind = "rule" /\ engine.phase = "input"
    /\ LET result == apply(engine.rule, "age", engine.value)
       IN  engine' = [engine EXCEPT
                !.phase = "returned",
                !.ok = result.ok,
                !.error_msg = result.error_msg]
    /\ UNCHANGED others

\* Variable.cast_value(value) on a raw value
CastValue ==
    /\ engine.kind = "value" /\ engine.phase = "input"
    /\ engine' = [engine EXCEPT
            !.phase = "cast",
            !.cast = cast_value(engine.data_type, engine.raw)]
    /\ UNCHANGED others

\* Variable.validate(value) on the value cast_value returned
ValidateCast ==
    /\ engine.kind = "value" /\ engine.phase = "cast"
    /\ LET result == ValidateValue(engine.variable, engine.cast)
       IN  engine' = [engine EXCEPT
                !.phase = IF result.raised # "" THEN "raised" ELSE "returned",
                !.raised = result.raised,
                !.valid = result.valid,
                !.variable = Variable(@.name, @.rules, result.errors)]
    /\ UNCHANGED others

\* Parser.parse_json(forms)
ParseJson ==
    /\ engine.kind = "parse" /\ engine.phase = "input"
    /\ engine' = [engine EXCEPT
            !.phase = "returned",
            !.variables = parse_json(engine.form_list, engine.files)]
    /\ UNCHANGED others

EngineNext ==
    \/ ParseJson
    \/ CheckRecordCerberus
    \/ ValidateVariable
    \/ ApplyRule
    \/ CastValue
    \/ ValidateCast

EngineSpec == EngineInit /\ [][EngineNext]_vars

\* ------------------------------------------------------- reading the history
CallIdx == 1..Len(calls)

IsCall(x, op) == calls[x].op = op

\* The identifiers an export call covers.
Covered(c) == IF c.all THEN Range(record_ids) ELSE c.ids

\* The exported instances of a call that fail validation.
Rejected(recs) == {r \in recs : ~ check_record_cerberus(r).passed}

\* Batch k is over: the loop has moved past it.
BatchOver(k) == i > k \/ pc = "done"

\* An instance is stored in a project, whatever its error annotation.
Present(r, project) ==
    \E s \in project : s.id = r.id /\ s.inst = r.inst /\ s.val = r.val

\* The number of batches for n identifiers and batch size b > 0, from its
\* defining inequality (m - 1) * b < n <= m * b.
ExpectedBatches(n, b) ==
    CHOOSE m \in 0..n : (m - 1) * b < n /\ n <= m * b

\* The identifiers batch k (from 1) must cover.
ExpectedSlice(k, b) ==
    {record_ids[j] : j \in ((k - 1) * b + 1)..Min(k * b, Len(record_ids))}

\* The export calls of the run, in order.
Exports == SelectSeq(calls, LAMBDA c : c.op = "export_records")

\* ------------------------------------------------------------------ C1
\* C1: delete_records on the source is called for a batch only after the
\* destination import of the same batch returned a count, for identifiers
\* that import carried; after an import that returned the failure value no
\* delete is ever called for that batch's identifiers.
C1_DeleteOnlyAfterImport ==
    /\ \A x \in CallIdx : IsCall(x, "delete_records") =>
          \E y \in 1..(x - 1) :
              /\ IsCall(y, "import_dest")
              /\ calls[y].batch = calls[x].batch
              /\ calls[y].result # Absent
              /\ calls[x].ids \subseteq calls[y].ids
    /\ \A y \in CallIdx :
          (IsCall(y, "import_dest") /\ calls[y].result = Absent) =>
              ~ \E x \in CallIdx :
                  /\ IsCall(x, "delete_records")
                  /\ calls[x].ids \cap calls[y].ids # {}

\* A run in which one batch's import failed and another batch was deleted.
C1_Witness ==
    /\ \E x \in CallIdx : IsCall(x, "delete_records") /\ calls[x].result # Absent
    /\ \E y \in CallIdx : IsCall(y, "import_dest") /\ calls[y].result = Absent

\* ------------------------------------------------------------------ C2
\* C2: after a run with move_records enabled, every instance that was
\* exported from the source is still in the source or is in the destination.
C2_NoInstanceDropped ==
    (pc = "done" /\ move) =>
        \A x \in CallIdx : IsCall(x, "export_records") =>
            \A r \in calls[x].recs : Present(r, src) \/ Present(r, dest)

\* ------------------------------------------------------------------ C3
\* C3: an instance that fails validation is not in the payload imported to
\* the destination, is in the payload written back to the source, and its
\* identifier is never passed to delete_records.
C3_RejectedKeptInSource ==
    \A x \in CallIdx : IsCall(x, "export_records") =>
        \A r \in Rejected(calls[x].recs) :
            \A y \in CallIdx : calls[y].batch = calls[x].batch =>
                /\ IsCall(y, "import_dest") => ~ Present(r, calls[y].recs)
                /\ IsCall(y, "import_src") => Present(r, calls[y].recs)
                /\ IsCall(y, "delete_records") => r.id \notin calls[y].ids

\* ------------------------------------------------------------------ C4
\* C4: with N > 0 identifiers and batch size b > 0 the batches exported are,
\* in order, the contiguous slices [k*b, min((k+1)*b, N)), each of at most b
\* identifiers, pairwise disjoint; when transfer_data returns there are
\* exactly ceil(N/b) of them and together they cover all N identifiers.
C4_BatchPartition ==
    (batch_size_val > 0 /\ pc \in {"loop", "import", "move", "writeback", "done"}) =>
        LET b == batch_size_val
            N == Len(record_ids)
            E == Exports
            cov == [k \in 1..Len(E) |-> Covered(E[k])]
        IN  /\ \A k \in 1..Len(E) :
                /\ E[k].batch = k - 1
                /\ cov[k] = ExpectedSlice(k, b)
                /\ Cardinality(cov[k]) <= b
                /\ Cardinality(cov[k]) > 0
            /\ \A k, l \in 1..Len(E) : k # l => cov[k] \cap cov[l] = {}
            /\ pc = "done" =>
                /\ Len(E) = ExpectedBatches(N, b)
                /\ UNION {cov[k] : k \in 1..Len(E)} = Range(record_ids)

\* A finished run of more than one batch whose last batch is short.
C4_Witness ==
    /\ pc = "done"
    /\ batch_size_val > 0
    /\ num_records > batch_size_val
    /\ num_records % batch_size_val # 0
    /\ Len(Exports) > 1

\* ------------------------------------------------------------------ C5
\* The forms of the source project and the forms selected for the run, the
\* error-report form not counted.
ProjectFormSet == Range(all_forms) \ {qc_err_form}

SelectedFormSet == Range(forms) \ {qc_err_form}

StrictSubset(a, b) == a \subseteq b /\ a # b

\* C5: when the selected forms are a strict subset of the project's forms,
\* or an events filter is set, delete_records is never called.
C5_NoDeleteOnSubset ==
    (StrictSubset(SelectedFormSet, ProjectFormSet) \/ events # <<>>) =>
        ~ \E x \in CallIdx : IsCall(x, "delete_records")

\* ------------------------------------------------------------------ C6
\* The write-back payload for a set of exported instances.
WriteBackPayload(recs) ==
    {[r EXCEPT !.timestamp = "now", !.val_errs = "errors"] : r \in Rejected(recs)}

\* Batch k submitted the payload to the source.
WrittenBack(k, payload) ==
    \E y \in CallIdx :
        /\ IsCall(y, "import_src")
        /\ calls[y].batch = k
        /\ calls[y].recs = payload

\* C6 as stated, in a run with an error-report form configured: every batch
\* whose export succeeded and that holds a rejected instance submits the
\* annotated rejected instances to the source before the loop moves on,
\* whatever the destination import returned.
C6_WriteBackAlways ==
    \A x \in CallIdx :
        (/\ qc_err_form # ""
         /\ IsCall(x, "export_records")
         /\ calls[x].result # Absent
         /\ BatchOver(calls[x].batch)
         /\ Rejected(calls[x].recs) # {}) =>
            LET payload == WriteBackPayload(calls[x].recs)
            IN  WrittenBack(calls[x].batch, payload)

\* The destination import of batch k returned the failure value or 0.
ImportUnconfirmed(k) ==
    \E y \in CallIdx :
        /\ IsCall(y, "import_dest")
        /\ calls[y].batch = k
        /\ ~ Truthy(calls[y].result)

\* C6 amended: every batch whose export succeeded and that holds a rejected
\* instance submits the rejected instances to the source (annotated with
\* the error report and timestamp when an error-report form is configured)
\* before the loop moves on, whatever the source delete returned, unless
\* the destination import of the batch returned the failure value or 0.
C6_WriteBackUnlessImportFailed ==
    \A x \in CallIdx :
        (/\ IsCall(x, "export_records")
         /\ calls[x].result # Absent
         /\ BatchOver(calls[x].batch)
         /\ Rejected(calls[x].recs) # {}
         /\ ~ ImportUnconfirmed(calls[x].batch)) =>
            LET payload == IF qc_err_form # ""
                           THEN WriteBackPayload(calls[x].recs)
                           ELSE Rejected(calls[x].recs)
            IN  WrittenBack(calls[x].batch, payload)

\* A batch with a confirmed import and a failed delete wrote its rejected
\* instance back.
C6_Witness ==
    \E x, y, z \in CallIdx :
        /\ IsCall(x, "import_dest") /\ Truthy(calls[x].result)
        /\ IsCall(y, "delete_records") /\ calls[y].result = Absent
        /\ IsCall(z, "import_src")
        /\ calls[x].batch = calls[y].batch /\ calls[y].batch = calls[z].batch
        /\ BatchOver(calls[z].batch)

\* ------------------------------------------------------------------ C7
\* The step that appends a call of the given kind with the failure value.
FailedCallStep(op) ==
    /\ Len(calls') = Len(calls) + 1
    /\ calls'[Len(calls')].op = op
    /\ ~ Truthy(calls'[Len(calls')].result)

\* After call x, which ended batch k, the run goes on with batch k + 1:
\* nothing more is called for batch k, the next call exports batch k + 1,
\* and while no call has followed the loop stands at batch k + 1 (or the
\* run is over because k was the last batch).
RunGoesOn(x) ==
    LET k == calls[x].batch
    IN  /\ \A y \in CallIdx : y > x => calls[y].batch > k
        /\ x < Len(calls) =>
              IsCall(x + 1, "export_records") /\ calls[x + 1].batch = k + 1
        /\ x = Len(calls) =>
              \/ pc = "loop" /\ i = k + 1
              \/ pc = "done" /\ k + 1 = iterations

\* The same for every call of the given kind that returned the failure value.
GoesOnAfterFailed(op) ==
    \A x \in CallIdx :
        (IsCall(x, op) /\ ~ Truthy(calls[x].result)) => RunGoesOn(x)

\* C7: a failed write-back of rejected instances leaves the imported total
\* as it was, advances the batch index by one, and every later batch is
\* still processed.
C7_WriteBackFailureOnlyWarns ==
    /\ [][FailedCallStep("import_src") =>
            /\ total_imported' = total_imported
            /\ i' = i + 1
            /\ pc' = "loop"]_vars
    /\ [] GoesOnAfterFailed("import_src")

\* A later batch was exported after a write-back that failed.
C7_Witness ==
    \E x \in CallIdx :
        /\ IsCall(x, "import_src")
        /\ calls[x].result = Absent
        /\ x < Len(calls)
        /\ total_imported > 0

\* ------------------------------------------------------------------ C8
\* C8: when the export of a batch or its destination import returns nothing
\* the run goes on with the next batch, and a finished run has exported
\* every batch.
C8_BatchFailureContinues ==
    /\ GoesOnAfterFailed("export_records")
    /\ GoesOnAfterFailed("import_dest")
    /\ pc = "done" =>
          \A k \in 0..(iterations - 1) :
              \E x \in CallIdx : IsCall(x, "export_records") /\ calls[x].batch = k

\* A finished run with a failed export and a failed import, each followed
\* by the export of the next batch.
C8_Witness ==
    /\ pc = "done"
    /\ \E x, y \in CallIdx :
        /\ IsCall(x, "export_records") /\ calls[x].result = Absent
        /\ IsCall(y, "import_dest") /\ calls[y].result = Absent
        /\ x < Len(calls) /\ y < Len(calls)

\* ------------------------------------------------------------------ C9
\* The sum of the counts returned by the destination imports among the
\* first n calls (a failed import returns no count).
RECURSIVE SumImportCounts(_)
SumImportCounts(n) ==
    IF n = 0 THEN 0
    ELSE SumImportCounts(n - 1) +
         (IF IsCall(n, "import_dest") /\ calls[n].result # Absent
          THEN calls[n].result ELSE 0)

\* C9: the imported total reported at the end is the sum of the counts the
\* destination imports returned, and the failed total is the number of
\* candidate identifiers minus it; deletes do not enter either value.
C9_TotalsFromImportsOnly ==
    pc = "done" =>
        LET sum == SumImportCounts(Len(calls))
        IN  /\ reported.imported = sum
            /\ reported.failed = Len(record_ids) - sum

\* A finished run in which two batches were imported and a delete failed.
C9_Witness ==
    /\ pc = "done"
    /\ reported.imported > 1
    /\ \E x, y \in CallIdx :
        /\ IsCall(x, "import_dest") /\ IsCall(y, "import_dest") /\ x # y
        /\ calls[x].result > 0 /\ calls[y].result > 0
    /\ \E x \in CallIdx : IsCall(x, "delete_records") /\ calls[x].result = Absent

\* ------------------------------------------------------------------ C10
\* The destination imports and source deletes of the run, in order.
Moves ==
    SelectSeq(calls, LAMBDA c : c.op \in {"import_dest", "delete_records"})

\* Every remote call of the run succeeded, every exported instance passed
\* validation and every import returned the batch's record count.
AllConfirmed ==
    \A x \in CallIdx :
        /\ calls[x].result # Absent
        /\ IsCall(x, "export_records") => Rejected(calls[x].recs) = {}
        /\ IsCall(x, "import_dest") => calls[x].result = Cardinality(calls[x].ids)

\* All forms of the project are selected and no events filter is set.
AllSelected ==
    /\ all_forms # <<>>
    /\ SelectedFormSet = ProjectFormSet
    /\ events = <<>>

\* The size of batch k (from 1) of m batches: b, ..., b and the remainder.
ExpectedSize(k, m, n, b) == IF k < m THEN b ELSE n - (m - 1) * b

\* C10: N records, batch size b > 0, move_records, all forms selected, all
\* instances valid and all calls confirmed: a finished run made ceil(N/b)
\* destination imports and as many source deletes, alternating, of sizes
\* b, ..., b and the remainder, wrote nothing back, and reports N and 0.
C10_FullMoveScenario ==
    (pc = "done" /\ batch_size_val > 0 /\ move /\ AllSelected /\ AllConfirmed) =>
        LET b == batch_size_val
            N == Len(record_ids)
            m == ExpectedBatches(N, b)
            M == Moves
        IN  /\ Len(M) = 2 * m
            /\ \A k \in 1..m :
                /\ 2 * k <= Len(M)
                /\ M[2 * k - 1].op = "import_dest"
                /\ M[2 * k].op = "delete_records"
                /\ Cardinality(M[2 * k - 1].ids) = ExpectedSize(k, m, N, b)
                /\ M[2 * k].ids = M[2 * k - 1].ids
                /\ M[2 * k].result = ExpectedSize(k, m, N, b)
            /\ ~ \E x \in CallIdx : IsCall(x, "import_src")
            /\ reported = [imported |-> N, failed |-> 0]

\* Such a run with a full batch followed by a short one.
C10_Witness ==
    /\ pc = "done" /\ batch_size_val > 0 /\ move /\ AllSelected /\ AllConfirmed
    /\ Len(record_ids) > batch_size_val
    /\ Len(record_ids) % batch_size_val # 0
    /\ Len(Moves) >= 4

\* ------------------------------------------------------------------ C11
\* The queries of one aspect in the history of compared settings.
Asked(aspect) == {x \in 1..Len(queries) : queries[x].aspect = aspect}

\* The positions of main inside transfer_data.
Transferring == {"start", "loop", "import", "move", "writeback", "done",
                 "returned", "crashed"}

\* C11: the compatibility check runs once per run and before the transfer:
\* no identifier or record is exported, imported or deleted unless
\* compare_project_settings has returned True; when it has returned False
\* the run has ended without any record call; and once the record calls
\* have begun no setting is compared any more.
C11_CompareOnceBeforeTransfer ==
    /\ [] /\ Len(compared) <= 1
          /\ Cardinality(Asked("dictionary")) <= 1
          /\ (calls # <<>> \/ pc \in Transferring) => compared = <<TRUE>>
          /\ compared = <<FALSE>> => (calls = <<>> /\ pc = "ended")
    /\ [][(calls # <<>> \/ pc \in Transferring)
              => UNCHANGED <<queries, compared>>]_vars

C11_Witness ==
    /\ pc = "done"
    /\ compared = <<TRUE>>
    /\ Cardinality(Asked("dictionary")) = 1
    /\ \E x \in CallIdx : IsCall(x, "delete_records")

\* ------------------------------------------------------------------ C12
\* The aspects in the order the comparison is to take them.
AspectOrder ==
    <<"dictionary", "longitudinal", "arms", "events", "mappings",
      "repeating", "instruments">>

Position(aspect) == CHOOSE k \in 1..Len(AspectOrder) : AspectOrder[k] = aspect

\* A compared aspect mismatches: a dictionary that is empty or was not
\* retrieved, or two results that differ.
Mismatch(q) ==
    \/ q.src # q.dest
    \/ q.aspect = "dictionary" /\ (q.src \in {"", "False"} \/ q.dest \in {"", "False"})

\* Both projects have the flag of the aspect set.
BothSet(aspect) ==
    \E x \in Asked(aspect) : queries[x].src = "1" /\ queries[x].dest = "1"

\* The aspects a comparison that returns True must have gone through.
Due ==
    {"dictionary", "longitudinal", "repeating"}
        \cup (IF BothSet("longitudinal") THEN {"arms", "events", "mappings"} ELSE {})
        \cup (IF BothSet("repeating") THEN {"instruments"} ELSE {})

\* The settings of the two projects agree in every aspect that counts.
SettingsMatch(p) ==
    /\ p.src.dict # "" /\ p.src.dict = p.dest.dict
    /\ p.src.lng = p.dest.lng
    /\ p.src.lng => /\ p.src.arms = p.dest.arms
                    /\ p.src.events = p.dest.events
                    /\ p.src.maps = p.dest.maps
    /\ p.src.rpt = p.dest.rpt
    /\ p.src.rpt => p.src.ins = p.dest.ins

\* C12: compare_project_settings takes the aspects in the order dictionary,
\* longitudinal flag, arms, events, form-event mappings (these three only
\* when both projects are longitudinal), repeating flag, repeating-instrument
\* definitions (only when both projects have repeating instruments); the
\* first aspect that mismatches is the last one asked and the result is
\* False; the result is True iff every aspect due was asked and none
\* mismatched, a definition being the text its export returned; when every
\* export succeeded that is iff the settings of the two projects agree.
C12_OrderedShortCircuit ==
    LET n == Len(queries)
    IN  /\ \A x, y \in 1..n :
              x < y => Position(queries[x].aspect) < Position(queries[y].aspect)
        /\ \A x \in 1..n :
              /\ queries[x].aspect \in {"arms", "events", "mappings"}
                    => BothSet("longitudinal")
              /\ queries[x].aspect = "instruments" => BothSet("repeating")
              /\ Mismatch(queries[x]) => (x = n /\ compared = <<FALSE>>)
        /\ compared # <<>> =>
              /\ compared[1] <=>
                    /\ \A a \in Due : Asked(a) # {}
                    /\ \A x \in 1..n : ~ Mismatch(queries[x])
              /\ (\A x \in 1..n : "False" \notin {queries[x].src, queries[x].dest})
                    => (compared[1] <=> SettingsMatch(settings))

C12_Witness ==
    /\ compared = <<FALSE>>
    /\ Len(queries) = 4
    /\ queries[4] = Query("events", "e1,e2", "e1")
    /\ Asked("mappings") = {}

\* ------------------------------------------------------------------ C13
\* set_quality_checker has been called and has returned.
CheckerTried == compared = <<TRUE>> /\ pc # "compatible"

Checked == engine.kind = "cerberus" /\ engine.phase = "returned"

\* Variable.validate has returned for the value.
Validated == engine.kind = "variable" /\ engine.phase = "returned"

\* C14: for every schema and record for which check_record_cerberus returns,
\* passed is true iff the errors it returns are empty; Variable.validate
\* returns True iff the errors list of the variable is empty after the call.
C14_PassedIffNoErrors ==
    /\ Checked => (engine.result.passed <=> engine.result.errors = <<>>)
    /\ Validated => (engine.valid <=> engine.variable.errors = <<>>)

C14_Witness ==
    /\ Checked
    /\ ~ engine.result.passed
    /\ Len(engine.result.errors) = 2

\* ------------------------------------------------------------------ C15
\* NumericRangeRule.apply has returned for the value.
Applied == engine.kind = "rule" /\ engine.phase = "returned"

\* A piece is part of a message.
Contains(msg, piece) == \E k \in 1..Len(msg) : msg[k] = piece

\* C15: NumericRangeRule.apply returns True iff min_val <= v <= max_val, so
\* both bounds of a range pass; when it fails the message holds the field
\* name, the value and the range as "[min - max]"; when it passes the
\* message is empty.
C15_NumericRange ==
    Applied =>
        LET r == engine.rule
            v == engine.value
            msg == engine.error_msg
        IN  /\ engine.ok <=> (r.min_val <= v /\ v <= r.max_val)
            /\ (r.min_val <= r.max_val /\ v \in {r.min_val, r.max_val})
                  => engine.ok
            /\ ~ engine.ok =>
                  /\ Contains(msg, "age")
                  /\ Contains(msg, ToString(v))
                  /\ \E k \in 1..(Len(msg) - 4) :
                        SubSeq(msg, k, k + 4) =
                            <<"[", ToString(r.min_val), " - ",
                              ToString(r.max_val), "]">>
            /\ engine.ok => msg = <<>>

C15_Witness ==
    /\ Applied
    /\ engine.rule.min_val < engine.rule.max_val
    /\ engine.value = engine.rule.max_val
    /\ engine.ok

\* ------------------------------------------------------------------ C16
\* The flags of the filled rules declared for a field.
FilledFlags(schema, field) ==
    IF Declared(schema, field)
    THEN LET rls == DefinitionOf(schema, field).rules
         IN  {rls[k].flag : k \in {j \in 1..Len(rls) : rls[j].rule = "filled"}}
    ELSE {}

\* The result holds an error of the given rule for the field.
HasError(result, field, rule) ==
    \E k \in 1..Len(result.errors) :
        result.errors[k].field = field /\ result.errors[k].rule = rule

\* C16: whatever the raw value of a field casts to, zero included, its
\* filled rule gives an error with filled=true iff the raw value is empty,
\* and with filled=false iff the raw value is not empty.
C16_FilledIffEmpty ==
    Checked =>
        \A flag \in FilledFlags(engine.qc.schema, "a") :
            LET empty == Value(engine.record, "a").s = <<>>
                error == HasError(engine.result, "a", "filled")
            IN  error <=> (IF flag THEN empty ELSE ~ empty)

\* ------------------------------------------------------------------ C17
\* The constraints declared for a field, <<>> when it declares none.
ConstraintsOf(schema, field) ==
    IF Declared(schema, field)
    THEN LET rls == DefinitionOf(schema, field).rules
             at == {j \in 1..Len(rls) : rls[j].rule = "constraints"}
         IN  IF at = {} THEN <<>> ELSE rls[CHOOSE j \in at : TRUE].list
    ELSE <<>>

\* Every dependency sub-rule of the 'if' part holds on the typed record.
IfHolds(c, document) ==
    \A k \in 1..Len(c.if) :
        Has(document, c.if[k].field) =>
            SubErrors(c.if[k].field, c.if[k].conds,
                      Value(document, c.if[k].field)) = <<>>

\* The 'then' part fails on the value of the field itself.
ThenFails(c, field, document) ==
    SubErrors(field, c.then, Value(document, field)) # <<>>

\* The errors of a result that stem from the constraint at place k.
ViolationsOf(result, field, k) ==
    SelectSeq(result.errors,
              LAMBDA e : e.field = field /\ e.rule = "constraints" /\ e.index = k)

\* The records that differ from a record in dependent fields only.
SameButDependencies(record) ==
    {r \in Records : Len(r) = Len(record) /\ Value(r, "a") = Value(record, "a")}

\* The constraint at place k of field a is violated in the result iff its
\* 'if' part holds on the typed record and its 'then' part fails on a; a
\* record that differs in the dependent fields so that the 'if' part fails
\* has no violation of it.
ThenIffIf(qc, record, result) ==
    LET list == ConstraintsOf(qc.schema, "a")
    IN  \A k \in 1..Len(list) :
            /\ ViolationsOf(result, "a", k) # <<>>
                  <=> (IfHolds(list[k], result.cast)
                          /\ ThenFails(list[k], "a", result.cast))
            /\ \A other \in SameButDependencies(record) :
                  LET changed == CheckRecord(qc, other)
                  IN  ~ IfHolds(list[k], changed.cast)
                          => ViolationsOf(changed, "a", k) = <<>>

\* Every violation of a constraint of field a ends with the conditions of
\* its 'if' part.
NamesConditions(qc, result) ==
    LET list == ConstraintsOf(qc.schema, "a")
    IN  \A k \in 1..Len(list) :
            LET found == ViolationsOf(result, "a", k)
            IN  \A j \in 1..Len(found) : found[j].conds = list[k].if

\* C17 as stated: the 'then' part of a constraint is evaluated iff every
\* dependency of its 'if' part holds on the full record, a change of the
\* dependent fields that fails the 'if' part removes the violation, and
\* every violation reported names the dependency conditions.
C17_ViolationNamesConditions ==
    Checked =>
        /\ ThenIffIf(engine.qc, engine.record, engine.result)
        /\ NamesConditions(engine.qc, engine.result)

\* C17 amended: as above, but the violation names the dependency conditions
\* when the field declares no custom error message; when it declares one,
\* that message is what is reported.
C17_ThenIffIfHolds ==
    Checked =>
        /\ ThenIffIf(engine.qc, engine.record, engine.result)
        /\ LET custom == DefinitionOf(engine.qc.schema, "a").errmsg
               list == ConstraintsOf(engine.qc.schema, "a")
           IN  list # <<>> =>
                  IF custom = ""
                  THEN NamesConditions(engine.qc, engine.result)
                  ELSE \A k \in 1..Len(list) :
                          LET found == ViolationsOf(engine.result, "a", k)
                          IN  \A j \in 1..Len(found) :
                                 found[j].text = <<"a", ": ", custom>>

C17_Witness ==
    /\ Checked
    /\ ConstraintsOf(engine.qc.schema, "a") = <<WhenB, WhenBC>>
    /\ DefinitionOf(engine.qc.schema, "a").errmsg = ""
    /\ ViolationsOf(engine.result, "a", 1) # <<>>
    /\ ViolationsOf(engine.result, "a", 2) # <<>>

\* ------------------------------------------------------------------ C18
\* C18: a constraint that lacks its 'if' or its 'then' part makes the
\* construction of the engine fail, so that set_quality_checker returns
\* False and the run exits before the transfer; no exception is raised
\* while an instance is evaluated inside the batch loop.
C18_MalformedFailsAtLoad ==
    (rules = "malformed" /\ forms # <<>>) =>
        /\ ~ qual_check.set
        /\ pc \notin Transferring
        /\ calls = <<>>
        /\ CheckerTried => pc = "exit"

\* ------------------------------------------------------------------ C19
\* The places 1..n in order.
Places(n) == [k \in 1..n |-> k]

\* The messages of the rules of a variable whose range excludes the value,
\* in the order of the rules.
RangeViolations(variable, value) ==
    LET outside == SelectSeq(variable.rules,
                       LAMBDA r : value < r.min_val \/ value > r.max_val)
    IN  [k \in 1..Len(outside) |->
            RangeMessage(variable.name, value, outside[k].min_val,
                         outside[k].max_val)]

\* The rules declared for a field that the typed record violates, in the
\* order of declaration: <<rule, 0>>, and <<"constraints", k>> for the
\* constraint at place k of a constraints list.
Violated(schema, field, document) ==
    LET rls == DefinitionOf(schema, field).rules
        value == Value(document, field)
        of(r) ==
            IF r.rule = "constraints"
            THEN LET at == SelectSeq(Places(Len(r.list)),
                              LAMBDA k : /\ IfHolds(r.list[k], document)
                                         /\ ThenFails(r.list[k], field,
                                                      document))
                 IN  [j \in 1..Len(at) |-> <<"constraints", at[j]>>]
            ELSE IF RuleMessage(r, value) # "" THEN <<<<r.rule, 0>>>>
            ELSE <<>>
    IN  Flatten([k \in 1..Len(rls) |-> of(rls[k])])

\* The errors a result holds for a field, each as <<rule, place>>.
Reported(result, field) ==
    LET found == SelectSeq(result.errors, LAMBDA e : e.field = field)
    IN  [k \in 1..Len(found) |-> <<found[k].rule, found[k].index>>]

Called == engine.kind = "cerberus" /\ engine.phase # "input"

\* A record without its field.
Without(record, field) == SelectSeq(record, LAMBDA item : item.field # field)

\* C20: for a record holding a field x that the schema does not declare and
\* that is evaluated without exception when x is left out: in non-strict
\* mode the outcome is that of the record without x; in strict mode
\* check_record_cerberus returns, with passed false and an error under x.
C20_UnknownField ==
    (Called /\ Has(engine.record, "x")) =>
        LET base == CheckRecord(engine.qc, Without(engine.record, "x"))
            result == engine.result
        IN  base.raised = "" =>
               IF engine.qc.strict
               THEN /\ engine.phase = "returned"
                    /\ ~ result.passed
                    /\ \E k \in 1..Len(result.errors) :
                          /\ result.errors[k].field = "x"
                          /\ result.errors[k].rule = "unknown"
               ELSE /\ engine.phase = "returned"
                    /\ result.passed = base.passed
                    /\ result.errors = base.errors

\* ------------------------------------------------------------------ C21
\* A raw value is empty or holds blanks only.
Blank(s) == lstrip(rstrip(s)) = <<>>

\* cast_value has returned for the raw value.
Cast == engine.kind = "value" /\ engine.phase # "input"

\* C21: the cast of a record keeps its fields, in their order, and maps
\* every empty or blank raw value to None, whatever the schema declares,
\* a schema without typed fields included; cast_value maps an empty or
\* blank raw value to None.
C21_BlankToNone ==
    /\ Called =>
          LET record == engine.record
              cast == engine.result.cast
          IN  /\ Len(cast) = Len(record)
              /\ \A k \in 1..Len(record) :
                    /\ cast[k].field = record[k].field
                    /\ Blank(record[k].value.s) => cast[k].value = None
    /\ Cast => (Blank(engine.raw) => engine.cast = None)

\* ------------------------------------------------------------------ C22
\* A raw value that is not empty and that int() does not parse.
Uncastable(s) == s # <<>> /\ int(s) = ValueError

\* Variable.validate has been called on the value cast_value returned.
ValueJudged ==
    engine.kind = "value" /\ engine.phase \in {"returned", "raised"}

\* C22: a raw value of an integer field that cannot be parsed is kept as
\* the raw str by cast_record and by cast_value, and the rules of the
\* variable, numeric range rules, judge it invalid with an error message
\* without raising.
C22_UncastableFailsRules ==
    /\ (Called /\ Declared(engine.qc.schema, "a")) =>
          LET raw == Value(engine.record, "a")
          IN  (/\ DefinitionOf(engine.qc.schema, "a").type = "integer"
               /\ Uncastable(raw.s))
                  => Value(engine.result.cast, "a") = raw
    /\ (/\ ValueJudged
        /\ engine.data_type = "INT"
        /\ Uncastable(engine.raw)
        /\ engine.variable.rules # <<>>) =>
          /\ engine.cast = StrVal(engine.raw)
          /\ engine.phase = "returned"
          /\ ~ engine.valid
          /\ engine.variable.errors # <<>>

\* ------------------------------------------------------------------ C23
\* C23: a call of check_record_cerberus leaves the record of its caller as
\* it was: every field keeps its raw str value, whatever the cast made of
\* it in the copy that is validated.
C23_RecordUnchanged ==
    [][(engine.kind = "cerberus" /\ engine.phase = "input"
            /\ engine'.phase # "input")
          => engine'.record = engine.record]_vars

C23_Witness ==
    /\ Checked
    /\ engine.result.passed
    /\ Value(engine.record, "a") = StrVal(<<"5">>)
    /\ Value(engine.result.cast, "a") = IntVal(5)
    /\ Value(engine.result.cast, "b") = None

\* ------------------------------------------------------------------ C24
\* parse_json has returned for the list of forms.
Parsed == engine.kind = "parse" /\ engine.phase = "returned"

\* A dictionary as the mapping it is: two dictionaries are equal when they
\* hold the same keys with the same values, in whatever order.
AsMapping(variables) == {variables[k] : k \in 1..Len(variables)}

Reverse(seq) == [k \in 1..Len(seq) |-> seq[Len(seq) + 1 - k]]

\* The definitions a form gives of a field.
DefsOf(files, form, name) ==
    IF files[form].loaded
    THEN {files[form].fields[k] :
             k \in {j \in 1..Len(files[form].fields) :
                       files[form].fields[j].name = name}}
    ELSE {}

\* The definitions of a field in a form that make a Variable: complete,
\* with at least one rule.
Registering(files, form, name) ==
    {d \in DefsOf(files, form, name) : d.complete /\ d.rules # <<>>}

\* The two forms define no field in common.
Disjoint(files) ==
    \A name \in {"a", "b"} :
        DefsOf(files, "f1", name) = {} \/ DefsOf(files, "f2", name) = {}

\* The entries of the dictionary under a name.
Entries(variables, name) == {e \in AsMapping(variables) : e.name = name}

\* Forms without a common field merge to the same schema in either order.
OrderIndependent ==
    Disjoint(engine.files) =>
        AsMapping(engine.variables)
            = AsMapping(parse_json(Reverse(engine.form_list), engine.files))

\* C24 as stated: forms that define different fields merge to the same
\* schema in either order; a field both forms define has, in the merged
\* schema, the definition of the form processed later.
C24_LaterFormWins ==
    Parsed =>
        /\ OrderIndependent
        /\ \A name \in {"a", "b"} :
              LET later == engine.form_list[Len(engine.form_list)]
              IN  (\A f \in {"f1", "f2"} : DefsOf(engine.files, f, name) # {})
                     => Entries(engine.variables, name)
                           = {Entry(d) : d \in DefsOf(engine.files, later, name)}

\* C24 amended: as above, but of the definitions of a field that both forms
\* give, the merged schema has the one of the last form whose definition
\* is complete and has a rule; a later definition that is incomplete or has
\* no rule leaves the earlier one in place, and a field no form gives such
\* a definition of is not in the schema.
C24_LaterRegisteredWins ==
    Parsed =>
        /\ OrderIndependent
        /\ \A name \in {"a", "b"} :
              LET first == engine.form_list[1]
                  later == engine.form_list[2]
                  files == engine.files
              IN  Entries(engine.variables, name)
                     = {Entry(d) : d \in
                          IF Registering(files, later, name) # {}
                          THEN Registering(files, later, name)
                          ELSE Registering(files, first, name)}

C24_Witness ==
    /\ Parsed
    /\ engine.form_list = <<"f2", "f1">>
    /\ Registering(engine.files, "f2", "a")
          = {FieldDef("a", "INT", TRUE, <<NumericRangeRule(1, 2)>>)}
    /\ Registering(engine.files, "f1", "a")
          = {FieldDef("a", "INT", TRUE, <<NumericRangeRule(2, 3)>>)}
    /\ Entries(engine.variables, "a")
          = {Entry(FieldDef("a", "INT", TRUE, <<NumericRangeRule(2, 3)>>))}

\* ------------------------------------------------------------------ C25
\* export_record_ids has been called and left no identifier: it failed, or
\* the source holds no matching record.
NoCandidates == pc # "start" /\ record_ids = <<>>

\* C25: when the identifiers of the source are not obtained or are none,
\* transfer_data returns at once: the call of export_record_ids is the only
\* remote call of the run, so that no record is exported, imported or
\* deleted, and the destination stays empty.
C25_EmptyIdsStops ==
    NoCandidates =>
        /\ pc = "returned"
        /\ Len(calls) = 1
        /\ calls[1].op = "export_record_ids"
        /\ dest = {}
        /\ total_imported = 0

C25_Witness ==
    /\ NoCandidates
    /\ src # {}
    /\ calls[1].result = Absent

\* ------------------------------------------------------------------ C26
\* C26: with a batch size of 0 or less and at least one identifier the loop
\* has one iteration, whose batch is all the identifiers; records are
\* exported once at most, in that batch, without identifier filter, and
\* exactly once when the run is over.
C26_NoBatchSizeOneBatch ==
    (batch_size_val <= 0 /\ pc # "start" /\ Len(record_ids) > 0) =>
        /\ iterations = 1
        /\ Slice(0) = Range(record_ids)
        /\ Len(Exports) <= 1
        /\ pc = "done" => Len(Exports) = 1
        /\ \A x \in 1..Len(Exports) :
              /\ Exports[x].batch = 0
              /\ Exports[x].all
              /\ Exports[x].ids = {}

C26_Witness ==
    /\ batch_size_val <= 0
    /\ pc = "done"
    /\ Len(record_ids) = MaxIds
    /\ Len(Exports) = 1
    /\ Exports[1].all
    /\ Cardinality(IdsOf(Exports[1].recs)) = MaxIds

\* ------------------------------------------------------------------ C27
\* C27: when the environment of the run does not set MOVE_RECORDS, the run
\* copies only: delete_records is called on the source in no batch.
C27_CopyOnlyByDefault ==
    environ = "" => ~ \E x \in CallIdx : IsCall(x, "delete_records")

\* ------------------------------------------------------------------ C28
\* The run of transfer_data or of move_data is over.
Ended == pc \in {"done", "returned", "halted", "crashed"}

\* The export calls of batch k.
ExportsOf(k) == {x \in CallIdx : IsCall(x, "export_records") /\ calls[x].batch = k}

ZeroImports == {x \in CallIdx : IsCall(x, "import_dest") /\ calls[x].result = 0}

\* C29: a destination import that returns 0 ends its batch as a failed
\* import does: the step leaves the imported total and both projects as
\* they are and goes to the next batch, and no later call belongs to the
\* batch, so that nothing is deleted and no rejected instance is written
\* back for it.
C29_ZeroImportIsFailure ==
    /\ [](\A x \in ZeroImports :
            /\ \A y \in CallIdx : y > x => calls[y].batch > calls[x].batch
            /\ x < Len(calls) =>
                  /\ IsCall(x + 1, "export_records")
                  /\ calls[x + 1].batch = calls[x].batch + 1)
    /\ [][(pc = "import" /\ pc' # "import" /\ num_imported' = 0) =>
            /\ total_imported' = total_imported
            /\ src' = src /\ dest' = dest
            /\ i' = i + 1
            /\ pc' = "loop"]_vars

C29_Witness ==
    /\ pc = "done"
    /\ move
    /\ \E x \in ZeroImports :
          /\ calls[x].batch = 0
          /\ x < Len(calls)
          /\ \E y \in ExportsOf(0) : Rejected(calls[y].recs) # {}

\* ------------------------------------------------------------------ C30
\* The definitions compare_project_settings compares.
Definitions == {"arms", "events", "mappings", "instruments"}

\* C30: compare_project_settings returns True only when every definition
\* it compared was retrieved from the source and from the destination: an
\* export that returned the failure value, on either side or on both,
\* makes the result False.
C30_FailedExportFails ==
    compared = <<TRUE>> =>
        \A x \in 1..Len(queries) :
            queries[x].aspect \in Definitions =>
                /\ queries[x].src # "False"
                /\ queries[x].dest # "False"
====
